---- MODULE Spec2Model ----
(***************************************************************************)
(* A model of pysm.FSM (src/pysm.py): a finite state machine that steps    *)
(* deterministically (first matching transition in iteration order) and    *)
(* evaluates acceptance of a label sequence non-deterministically.          *)
(*                                                                         *)
(* A Python object is a record `self`; a method is an operator that takes  *)
(* `self` and returns the object after the call together with the value    *)
(* returned (ret) or the exception raised (exc).  Python values returned   *)
(* to the caller are strings: "True", "False", "None" or a state name.     *)
(* A transition set of the table is held in its iteration order: the       *)
(* value of the set is the range of the sequence, the order is what a      *)
(* `for` loop over that set object yields.                                  *)
(***************************************************************************)
EXTENDS Integers, Sequences, FiniteSets, TLC

VARIABLES args, fsm, twin, pc, op, stepping

vars == <<args, fsm, twin, pc, op, stepping>>

\* Bounds of the model.
MaxSteps == 2
MaxLen == 2

StateIds == {"q0", "q1"}
Labels == {"a", "b"}

\* What a transition may name as its target: a state, or a name that is never
\* a key of the table.
Targets == StateIds \cup {"qUnknown"}

NoException == ""
TransitionNotPossibleException == "TransitionNotPossibleException"
InvalidStateMachineException == "InvalidStateMachineException"
TypeError == "TypeError"

Range(s) == {s[i] : i \in DOMAIN s}

\* A transition is a pair (label, target): x[0] is x[1] here, x[1] is x[2].
Transition == Labels \X Targets

\* The transition sets a caller supplies, each in an iteration order.
TransitionSets ==
    {<<>>} \cup {<<t>> : t \in Transition}
           \cup {p \in Transition \X Transition : p[1] # p[2]}

\* The `states` dictionaries a caller supplies: keys to transition sets.
Tables == UNION {[K -> TransitionSets] : K \in SUBSET StateIds}

\* The iteration orders a set object with the elements of s may have.
IterationOrders(s) ==
    {o \in [1..Len(s) -> Range(s)] : Range(o) = Range(s)}

\* The dictionaries that compare equal (==) to `states`: the same keys and,
\* for each key, a set object with the same elements.
EqualTables(states) ==
    {t \in [DOMAIN states -> UNION {IterationOrders(states[k]) : k \in DOMAIN states}] :
        \A k \in DOMAIN states : t[k] \in IterationOrders(states[k])}

\* No object: the name the caller would bind is unbound.
NoObject ==
    [states |-> <<>>, start_state |-> "", terminal_states |-> {},
     current_state |-> "", state_history |-> <<>>, transition_history |-> <<>>]

\* The record of the last call: the method, its arguments, and its outcome.
Call(name, label, labels, from_start, exc, ret, consumed, text) ==
    [name |-> name, label |-> label, labels |-> labels, from_start |-> from_start,
     exc |-> exc, ret |-> ret, consumed |-> consumed, text |-> text]

NoCall == Call("", "", <<>>, FALSE, NoException, "", 0, <<>>)

\* A step call of a second thread between its writes: the write it is about
\* to make and the transition its loop has picked.
NotStepping == [pc |-> "idle", possible_transition |-> <<>>]

\* The property `current`.
current(self) == self.current_state

\* _validate gone wrong: only the transitions of the start state are checked.
_validate_start_only(self) ==
    IF \E k \in DOMAIN self.states \cap {self.start_state} :
          \E i \in DOMAIN self.states[k] :
             self.states[k][i][2] \notin DOMAIN self.states
    THEN [exc |-> InvalidStateMachineException, ret |-> ""]
    ELSE [exc |-> NoException, ret |-> "True"]

\* FSM._validate: every target of every transition is a key of the table.
_validate(self) ==
    IF \E k \in DOMAIN self.states :
          \E i \in DOMAIN self.states[k] :
             self.states[k][i][2] \notin DOMAIN self.states
    THEN [exc |-> InvalidStateMachineException, ret |-> ""]
    ELSE [exc |-> NoException, ret |-> "True"]

\* __init__ gone wrong: the call of _validate is left out.
__init__unvalidated(states, start_state, terminal_states) ==
    [self |-> [states |-> states,
               start_state |-> start_state,
               terminal_states |-> terminal_states,
               current_state |-> start_state,
               state_history |-> <<start_state>>,
               transition_history |-> <<>>],
     exc |-> NoException]

\* FSM.__init__: the fields are assigned, then the table is validated.
__init__(states, start_state, terminal_states) ==
    LET self == [states |-> states,
                 start_state |-> start_state,
                 terminal_states |-> terminal_states,
                 current_state |-> start_state,
                 state_history |-> <<start_state>>,
                 transition_history |-> <<>>]
        v == _validate(self)
    IN  [self |-> self, exc |-> v.exc]

\* can gone wrong: the label of the transitions is not compared.
can_any_label(self, transition) ==
    IF current(self) \notin DOMAIN self.states
    THEN [self |-> self, exc |-> TypeError, ret |-> ""]
    ELSE [self |-> self, exc |-> NoException,
          ret |-> IF Len(self.states[current(self)]) # 0 THEN "True" ELSE "False"]

\* can gone wrong: a missing key is read as a state without transitions
\* (self.states.get(self.current, ())).
can_missing_is_empty(self, transition) ==
    LET possible_transitions ==
            IF current(self) \in DOMAIN self.states
            THEN self.states[current(self)] ELSE <<>>
        matches == {i \in DOMAIN possible_transitions :
                       possible_transitions[i][1] = transition}
    IN  [self |-> self, exc |-> NoException,
         ret |-> IF Cardinality(matches) # 0 THEN "True" ELSE "False"]

\* FSM.can: self.states.get(self.current) is None for a missing key, and
\* iterating None raises TypeError.
can(self, transition) ==
    IF current(self) \notin DOMAIN self.states
    THEN [self |-> self, exc |-> TypeError, ret |-> ""]
    ELSE LET possible_transitions == self.states[current(self)]
             matches == {i \in DOMAIN possible_transitions :
                            possible_transitions[i][1] = transition}
         IN  [self |-> self, exc |-> NoException,
              ret |-> IF Cardinality(matches) # 0 THEN "True" ELSE "False"]

\* The loop of step gone wrong: the first transition is taken whatever its
\* label is.
first_transition(possible_transitions, transition) ==
    IF possible_transitions = <<>> THEN <<>> ELSE Head(possible_transitions)

\* The loop of FSM.step: the first transition, in iteration order, whose
\* label is the requested one; <<>> when the loop ends without a match.
RECURSIVE first_match(_, _)
first_match(possible_transitions, transition) ==
    IF possible_transitions = <<>> THEN <<>>
    ELSE IF Head(possible_transitions)[1] = transition
         THEN Head(possible_transitions)
         ELSE first_match(Tail(possible_transitions), transition)

\* step gone wrong: the requested label is logged before the check, so a
\* refused step leaves it in the log.
step_logging_first(self, transition) ==
    LET logged == [self EXCEPT !.transition_history = Append(@, transition)]
        c == can(self, transition)
    IN  IF c.exc # NoException
        THEN [self |-> self, exc |-> c.exc, ret |-> ""]
        ELSE IF c.ret = "True"
        THEN LET possible_transition ==
                     first_match(self.states[current(self)], transition)
             IN  [self |-> [logged EXCEPT
                       !.state_history = Append(@, possible_transition[2]),
                       !.current_state = possible_transition[2]],
                   exc |-> NoException,
                   ret |-> possible_transition[2]]
        ELSE [self |-> logged, exc |-> TransitionNotPossibleException, ret |-> ""]

\* step gone wrong: the state that is left, not the target, is appended to
\* the visited states.
step_logging_source(self, transition) ==
    LET c == can(self, transition) IN
    IF c.exc # NoException
    THEN [self |-> self, exc |-> c.exc, ret |-> ""]
    ELSE IF c.ret = "True"
    THEN LET possible_transition ==
                 first_match(self.states[current(self)], transition)
         IN  [self |-> [self EXCEPT
                   !.state_history = Append(@, current(self)),
                   !.transition_history = Append(@, possible_transition[1]),
                   !.current_state = possible_transition[2]],
               exc |-> NoException,
               ret |-> possible_transition[2]]
    ELSE [self |-> self, exc |-> TransitionNotPossibleException, ret |-> ""]

\* FSM.step
step(self, transition) ==
    LET c == can(self, transition) IN
    IF c.exc # NoException
    THEN [self |-> self, exc |-> c.exc, ret |-> ""]
    ELSE IF c.ret = "True"
    THEN LET possible_transition ==
                 first_match(self.states[current(self)], transition)
         IN  IF possible_transition # <<>>
             THEN [self |-> [self EXCEPT
                       !.state_history = Append(@, possible_transition[2]),
                       !.transition_history = Append(@, possible_transition[1]),
                       !.current_state = possible_transition[2]],
                   exc |-> NoException,
                   ret |-> possible_transition[2]]
             ELSE [self |-> self, exc |-> NoException, ret |-> "None"]
    ELSE [self |-> self, exc |-> TransitionNotPossibleException, ret |-> ""]

\* _batch_step gone wrong: each state contributes only its first matching
\* transition, as step does.
_batch_step_greedy(self, transition, relevant_states) ==
    IF \E state \in relevant_states : state \notin DOMAIN self.states
    THEN [exc |-> TypeError, states |-> {}]
    ELSE [exc |-> NoException,
          states |-> {first_match(self.states[state], transition)[2] :
                        state \in {x \in relevant_states :
                            first_match(self.states[x], transition) # <<>>}}]

\* _batch_step gone wrong: the state a matching transition leaves, not its
\* target, is added (transitioned_states.add(state)).
_batch_step_adding_source(self, transition, relevant_states) ==
    IF \E state \in relevant_states : state \notin DOMAIN self.states
    THEN [exc |-> TypeError, states |-> {}]
    ELSE [exc |-> NoException,
          states |-> {state \in relevant_states :
                        \E x \in Range(self.states[state]) : x[1] = transition}]

\* FSM._batch_step: the targets of the transitions labelled `transition`
\* of the states in relevant_states; a state that is no key raises TypeError.
_batch_step(self, transition, relevant_states) ==
    IF \E state \in relevant_states : state \notin DOMAIN self.states
    THEN [exc |-> TypeError, states |-> {}]
    ELSE [exc |-> NoException,
          states |-> {pt[2] : pt \in
                        {x \in UNION {Range(self.states[state]) :
                                          state \in relevant_states} :
                            x[1] = transition}}]

\* The loop of accepts gone wrong: no return at an empty frontier, every
\* label is consumed.
RECURSIVE accepts_loop_no_return(_, _, _, _)
accepts_loop_no_return(self, transitions, current_states, consumed) ==
    IF transitions = <<>>
    THEN [self |-> self, exc |-> NoException,
          ret |-> IF current_states \cap self.terminal_states # {}
                  THEN "True" ELSE "False",
          consumed |-> consumed]
    ELSE LET b == _batch_step(self, Head(transitions), current_states) IN
         IF b.exc # NoException
         THEN [self |-> self, exc |-> b.exc, ret |-> "",
               consumed |-> consumed + 1]
         ELSE accepts_loop_no_return(self, Tail(transitions), b.states,
                                     consumed + 1)

\* The while loop of FSM.accepts; consumed counts the labels taken off the
\* front of `transitions`.
RECURSIVE accepts_loop(_, _, _, _)
accepts_loop(self, transitions, current_states, consumed) ==
    IF transitions = <<>>
    THEN [self |-> self, exc |-> NoException,
          ret |-> IF current_states \cap self.terminal_states # {}
                  THEN "True" ELSE "False",
          consumed |-> consumed]
    ELSE LET b == _batch_step(self, Head(transitions), current_states) IN
         IF b.exc # NoException
         THEN [self |-> self, exc |-> b.exc, ret |-> "",
               consumed |-> consumed + 1]
         ELSE IF b.states = {}
         THEN [self |-> self, exc |-> NoException, ret |-> "False",
               consumed |-> consumed + 1]
         ELSE accepts_loop(self, Tail(transitions), b.states, consumed + 1)

\* The variable current_states of FSM.accepts when its while loop is left,
\* by the early return or with every label consumed.
RECURSIVE current_states_after(_, _, _)
current_states_after(self, transitions, current_states) ==
    IF transitions = <<>>
    THEN [exc |-> NoException, states |-> current_states]
    ELSE LET b == _batch_step(self, Head(transitions), current_states) IN
         IF b.exc # NoException \/ b.states = {}
         THEN b
         ELSE current_states_after(self, Tail(transitions), b.states)

\* accepts gone wrong: from_start is ignored, the walk begins at the start
\* state.
accepts_always_from_start(self, transitions, from_start) ==
    accepts_loop(self, transitions, {self.start_state}, 0)

\* accepts gone wrong: the machine is moved to the state the walk begins at.
accepts_moving(self, transitions, from_start) ==
    LET initial_state == IF from_start THEN self.start_state ELSE current(self)
        moved == [self EXCEPT !.current_state = initial_state]
    IN  [accepts_loop(moved, transitions, {initial_state}, 0)
            EXCEPT !.self = moved]

\* accepts gone wrong: an empty sequence of labels is refused outright.
accepts_refusing_empty(self, transitions, from_start) ==
    LET initial_state == IF from_start THEN self.start_state ELSE current(self)
    IN  IF transitions = <<>>
        THEN [self |-> self, exc |-> NoException, ret |-> "False", consumed |-> 0]
        ELSE accepts_loop(self, transitions, {initial_state}, 0)

\* FSM.accepts
accepts(self, transitions, from_start) ==
    LET initial_state == IF from_start THEN self.start_state ELSE current(self)
    IN  accepts_loop(self, transitions, {initial_state}, 0)

\* can_terminate gone wrong: the start state is looked up, not the current.
can_terminate_at_start(self) ==
    [self |-> self, exc |-> NoException,
     ret |-> IF self.start_state \in self.terminal_states THEN "True" ELSE "False"]

\* FSM.can_terminate
can_terminate(self) ==
    [self |-> self, exc |-> NoException,
     ret |-> IF current(self) \in self.terminal_states THEN "True" ELSE "False"]

\* history gone wrong: the logs are emptied once they have been formatted.
history_draining(self) ==
    [self |-> [self EXCEPT !.state_history = <<current(self)>>,
                           !.transition_history = <<>>],
     exc |-> NoException,
     text |-> <<self.state_history, self.transition_history>>]

\* FSM.history: the text is made of the two logs.
history(self) ==
    [self |-> self, exc |-> NoException,
     text |-> <<self.state_history, self.transition_history>>]

\* The label sequences a caller passes to accepts.
LabelSeqs == UNION {[1..n -> Labels] : n \in 0..MaxLen}

----------------------------------------------------------------------------
\* The caller: construction, then any operation in any order.

Init ==
    /\ args \in [states : Tables, start_state : StateIds,
                 terminal_states : SUBSET StateIds]
    /\ fsm = NoObject
    /\ twin = NoObject
    /\ pc = "new"
    /\ op = NoCall
    /\ stepping = NotStepping

\* fsm = FSM(states, start_state, terminal_states)
New ==
    /\ pc = "new"
    /\ LET r == __init__(args.states, args.start_state, args.terminal_states)
       IN  /\ op' = Call("__init__", "", <<>>, FALSE, r.exc, "", 0, <<>>)
           /\ IF r.exc = NoException
              THEN fsm' = r.self /\ pc' = "returned"
              ELSE fsm' = fsm /\ pc' = "failed"
    /\ UNCHANGED <<args, twin, stepping>>

\* fsm.step(transition)
Step(transition) ==
    /\ pc = "ready"
    /\ LET r == step(fsm, transition)
       IN  /\ Len(r.self.transition_history) <= MaxSteps
           /\ fsm' = r.self
           /\ op' = Call("step", transition, <<>>, FALSE, r.exc, r.ret, 0, <<>>)
    /\ pc' = "returned"
    /\ UNCHANGED <<args, twin, stepping>>

\* fsm.can(transition)
Can(transition) ==
    /\ pc = "ready"
    /\ LET r == can(fsm, transition)
       IN  /\ fsm' = r.self
           /\ op' = Call("can", transition, <<>>, FALSE, r.exc, r.ret, 0, <<>>)
    /\ pc' = "returned"
    /\ UNCHANGED <<args, twin, stepping>>

\* fsm.can_terminate()
CanTerminate ==
    /\ pc = "ready"
    /\ LET r == can_terminate(fsm)
       IN  /\ fsm' = r.self
           /\ op' = Call("can_terminate", "", <<>>, FALSE, r.exc, r.ret, 0, <<>>)
    /\ pc' = "returned"
    /\ UNCHANGED <<args, twin, stepping>>

\* fsm.accepts(transitions, from_start)
Accepts(transitions, from_start) ==
    /\ pc = "ready"
    /\ LET r == accepts(fsm, transitions, from_start)
       IN  /\ fsm' = r.self
           /\ op' = Call("accepts", "", transitions, from_start,
                         r.exc, r.ret, r.consumed, <<>>)
    /\ pc' = "returned"
    /\ UNCHANGED <<args, twin, stepping>>

\* fsm.history()
History ==
    /\ pc = "ready"
    /\ LET r == history(fsm)
       IN  /\ fsm' = r.self
           /\ op' = Call("history", "", <<>>, FALSE, r.exc, "", 0, r.text)
    /\ pc' = "returned"
    /\ UNCHANGED <<args, twin, stepping>>

\* The call has returned (or raised, and the caller caught it): the caller
\* drops the outcome and is ready for its next call.
Return ==
    /\ pc = "returned"
    /\ pc' = "ready"
    /\ op' = NoCall
    /\ UNCHANGED <<args, fsm, twin, stepping>>

Next ==
    \/ New
    \/ Return
    \/ \E transition \in Labels : Step(transition)
    \/ \E transition \in Labels : Can(transition)
    \/ CanTerminate
    \/ \E transitions \in LabelSeqs : \E from_start \in BOOLEAN :
          Accepts(transitions, from_start)
    \/ History

Spec == Init /\ [][Next]_vars

----------------------------------------------------------------------------
\* Two machines built from tables that compare equal, driven in lockstep.

\* fsm = FSM(states, ...); twin = FSM(states2, ...) with states2 == states:
\* the same keys and the same transition sets, each set an object of its own
\* with an iteration order of its own.
NewPair ==
    /\ pc = "new"
    /\ \E states2 \in EqualTables(args.states) :
             LET r == __init__(args.states, args.start_state, args.terminal_states)
                 r2 == __init__(states2, args.start_state, args.terminal_states)
             IN  /\ op' = Call("__init__", "", <<>>, FALSE, r.exc, "", 0, <<>>)
                 /\ IF r.exc = NoException /\ r2.exc = NoException
                    THEN fsm' = r.self /\ twin' = r2.self /\ pc' = "paired"
                    ELSE fsm' = fsm /\ twin' = twin /\ pc' = "failed"
    /\ UNCHANGED <<args, stepping>>

\* fsm.step(transition); twin.step(transition)
StepPair(transition) ==
    /\ pc = "paired"
    /\ LET r == step(fsm, transition)
           r2 == step(twin, transition)
       IN  /\ Len(r.self.transition_history) <= MaxSteps
           /\ Len(r2.self.transition_history) <= MaxSteps
           /\ fsm' = r.self
           /\ twin' = r2.self
           /\ op' = Call("step", transition, <<>>, FALSE, r.exc, r.ret, 0, <<>>)
    /\ UNCHANGED <<args, pc, stepping>>

NextPair ==
    \/ NewPair
    \/ \E transition \in Labels : StepPair(transition)

SpecPair == Init /\ [][NextPair]_vars

----------------------------------------------------------------------------
\* One thread calls the read-only methods while a second thread calls step
\* on the same object.  The reads (lines 51-55) and each of the three writes
\* of step (lines 56, 57, 58) are steps of their own, and the calls of the
\* first thread may fall between them.

\* step, up to the match: can() is True and the loop has found the first
\* matching transition.  (A step whose can() is False or raises writes
\* nothing.)
StepFind(transition) ==
    /\ pc \in {"ready", "returned"}
    /\ stepping.pc = "idle"
    /\ Len(fsm.transition_history) < MaxSteps
    /\ can(fsm, transition).ret = "True"
    /\ stepping' = [pc |-> "append_state",
                    possible_transition |->
                        first_match(fsm.states[current(fsm)], transition)]
    /\ UNCHANGED <<args, fsm, twin, pc, op>>

\* The first write of step gone wrong: current_state is assigned before the
\* logs are appended to.
StepSetCurrentFirst ==
    /\ stepping.pc = "append_state"
    /\ fsm' = [fsm EXCEPT !.current_state = stepping.possible_transition[2]]
    /\ stepping' = [stepping EXCEPT !.pc = "append_label"]
    /\ UNCHANGED <<args, twin, pc, op>>

\* self.state_history.append(possible_transition[1])
StepAppendState ==
    /\ stepping.pc = "append_state"
    /\ fsm' = [fsm EXCEPT
                 !.state_history = Append(@, stepping.possible_transition[2])]
    /\ stepping' = [stepping EXCEPT !.pc = "append_label"]
    /\ UNCHANGED <<args, twin, pc, op>>

\* self.transition_history.append(possible_transition[0])
StepAppendLabel ==
    /\ stepping.pc = "append_label"
    /\ fsm' = [fsm EXCEPT
                 !.transition_history = Append(@, stepping.possible_transition[1])]
    /\ stepping' = [stepping EXCEPT !.pc = "set_current"]
    /\ UNCHANGED <<args, twin, pc, op>>

\* self.current_state = possible_transition[1]; return self.current
StepSetCurrent ==
    /\ stepping.pc = "set_current"
    /\ fsm' = [fsm EXCEPT !.current_state = stepping.possible_transition[2]]
    /\ stepping' = NotStepping
    /\ UNCHANGED <<args, twin, pc, op>>

\* The label sequences the reading thread passes to accepts: none or one.
ShortLabelSeqs == {<<>>} \cup {<<transition>> : transition \in Labels}

NextConcurrent ==
    \/ New
    \/ Return
    \/ \E transition \in Labels : Can(transition)
    \/ CanTerminate
    \/ \E transitions \in ShortLabelSeqs : \E from_start \in BOOLEAN :
          Accepts(transitions, from_start)
    \/ History
    \/ \E transition \in Labels : StepFind(transition)
    \/ StepAppendState
    \/ StepAppendLabel
    \/ StepSetCurrent

SpecConcurrent == Init /\ [][NextConcurrent]_vars

----------------------------------------------------------------------------
\* What the properties below are stated in: the transition relation of the
\* table, read as a graph, independently of how the methods walk it.

\* The transitions attached to state s (none when s is no key).
Outgoing(self, s) ==
    IF s \in DOMAIN self.states THEN Range(self.states[s]) ELSE {}

\* There is a path from `from` that consumes `labels` one per transition, in
\* order, and ends in a state of `targets`.
PathExists(self, from, labels, targets) ==
    \E p \in [1..(Len(labels) + 1) -> StateIds] :
        /\ p[1] = from
        /\ \A i \in 1..Len(labels) : <<labels[i], p[i + 1]>> \in Outgoing(self, p[i])
        /\ p[Len(labels) + 1] \in targets

\* The states reachable from `from` by the first n labels.
Reachable(self, from, labels, n) ==
    {s \in StateIds : PathExists(self, from, SubSeq(labels, 1, n), {s})}

\* The table holds a transition whose target is no key.
HasDanglingTarget(states) ==
    \E k \in DOMAIN states : \E t \in Range(states[k]) : t[2] \notin DOMAIN states

\* C1: accepts(labels, from_start=True) returns True exactly when the table
\* has a path from the start state that consumes the labels in order and ends
\* in a terminal state; the answer is the same whatever the current state is.
C1_AcceptsFromStartIffPath ==
    (op.name = "accepts" /\ op.from_start) =>
        /\ (op.ret = "True") <=>
               PathExists(fsm, fsm.start_state, op.labels, fsm.terminal_states)
        /\ \A c \in StateIds :
               LET r == accepts([fsm EXCEPT !.current_state = c], op.labels, TRUE)
               IN  r.ret = op.ret /\ r.exc = op.exc

\* C1 witness: after a step away from the start state, accepts from the start
\* answers True for labels that have no accepting path from the current state.
C1_Witness ==
    /\ op.name = "accepts" /\ op.from_start /\ op.ret = "True"
    /\ Len(op.labels) >= 2
    /\ Len(fsm.transition_history) >= 1
    /\ fsm.current_state # fsm.start_state
    /\ ~PathExists(fsm, fsm.current_state, op.labels, fsm.terminal_states)

\* C2: in a state whose current state is a key, step(label) raises
\* TransitionNotPossibleException exactly when can(label) is False just
\* before the call, and then current and both logs are what they were.
C2_StepFailsIffCannot ==
    [][(pc = "ready" /\ op'.name = "step"
            /\ fsm.current_state \in DOMAIN fsm.states) =>
          /\ (op'.exc = TransitionNotPossibleException)
                 <=> (can(fsm, op'.label).ret = "False")
          /\ (op'.exc = TransitionNotPossibleException) =>
                 /\ fsm'.current_state = fsm.current_state
                 /\ fsm'.state_history = fsm.state_history
                 /\ fsm'.transition_history = fsm.transition_history]_vars

\* C2 witness: a step that failed after an earlier step had succeeded.
C2_Witness ==
    /\ op.name = "step" /\ op.exc = TransitionNotPossibleException
    /\ fsm.current_state \in DOMAIN fsm.states
    /\ Len(fsm.transition_history) >= 1
    /\ Outgoing(fsm, fsm.current_state) # {}

\* C3: when can(label) is True in current state c, step(label) moves to a
\* target t with (label, t) a transition of c, appends t to the visited
\* states and label to the taken labels, sets current to t and returns t.
C3_StepMovesAndLogs ==
    [][(pc = "ready" /\ op'.name = "step"
            /\ fsm.current_state \in DOMAIN fsm.states
            /\ can(fsm, op'.label).ret = "True") =>
          LET t == fsm'.current_state IN
          /\ op'.exc = NoException
          /\ <<op'.label, t>> \in Outgoing(fsm, fsm.current_state)
          /\ fsm'.state_history = Append(fsm.state_history, t)
          /\ fsm'.transition_history = Append(fsm.transition_history, op'.label)
          /\ op'.ret = t
          /\ op'.ret # "None"]_vars

\* C3 witness: a second successful step, taken from a state that has another
\* transition with a different label listed before the one taken.
C3_Witness ==
    /\ op.name = "step" /\ op.exc = NoException
    /\ Len(fsm.transition_history) = 2
    /\ op.ret = fsm.current_state
    /\ LET c == fsm.state_history[2] IN
          /\ Len(fsm.states[c]) = 2
          /\ fsm.states[c][1][1] # op.label

\* C4: an accepts call, with either value of from_start and whatever it
\* answers, leaves current and both logs as they were.
C4_AcceptsChangesNothing ==
    [][(pc = "ready" /\ op'.name = "accepts") =>
          /\ fsm'.current_state = fsm.current_state
          /\ fsm'.state_history = fsm.state_history
          /\ fsm'.transition_history = fsm.transition_history]_vars

\* C4 witness: an accepts call from the start state that returned False at an
\* empty frontier, made after a step had moved current off the start state.
C4_Witness ==
    /\ op.name = "accepts" /\ op.from_start /\ op.ret = "False"
    /\ op.consumed < Len(op.labels)
    /\ Len(fsm.transition_history) >= 1
    /\ fsm.current_state # fsm.start_state

\* C5: construction raises InvalidStateMachineException exactly when some
\* transition's target is no key of the table, and then no object is
\* produced; otherwise it succeeds, whatever the start state and the
\* terminal set are.
C5_ConstructionValidatesTargets ==
    /\ (op.name = "__init__") =>
          /\ (op.exc = InvalidStateMachineException)
                 <=> HasDanglingTarget(args.states)
          /\ (op.exc = InvalidStateMachineException) =>
                 pc = "failed" /\ fsm = NoObject
          /\ ~HasDanglingTarget(args.states) =>
                 /\ op.exc = NoException /\ pc = "returned"
                 /\ fsm.states = args.states
                 /\ fsm.start_state = args.start_state
                 /\ fsm.terminal_states = args.terminal_states
    /\ (pc = "failed") => (fsm = NoObject /\ op.name = "__init__")

\* C5 witness: construction failed for a table whose start state is a key
\* with only valid targets; the dangling target is in another state's set.
C5_Witness ==
    /\ pc = "failed" /\ op.exc = InvalidStateMachineException
    /\ args.start_state \in DOMAIN args.states
    /\ \A t \in Range(args.states[args.start_state]) : t[2] \in DOMAIN args.states

\* C6: accepts(labels, from_start=False) returns True exactly when the table
\* has a path from the current state (not the start state) that consumes the
\* labels in order and ends in a terminal state.
C6_AcceptsFromCurrentIffPath ==
    (op.name = "accepts" /\ ~op.from_start) =>
        ((op.ret = "True") <=>
            PathExists(fsm, fsm.current_state, op.labels, fsm.terminal_states))

\* C6 witness: after a step away from the start state, accepts from the
\* current state answers True for labels with no accepting path from start.
C6_Witness ==
    /\ op.name = "accepts" /\ ~op.from_start /\ op.ret = "True"
    /\ Len(op.labels) >= 2
    /\ Len(fsm.transition_history) >= 1
    /\ fsm.current_state # fsm.start_state
    /\ ~PathExists(fsm, fsm.start_state, op.labels, fsm.terminal_states)

\* C7: two machines built from identical table, start state and terminal set
\* and driven by the same labels have the same current state and the same
\* two logs after every step.
C7_SameTieBreak ==
    (pc = "paired") =>
        /\ fsm.current_state = twin.current_state
        /\ fsm.state_history = twin.state_history
        /\ fsm.transition_history = twin.transition_history

\* C8: in a state whose current state is a key, can(label) returns True
\* exactly when the current state has a transition labelled label, and the
\* call changes neither current nor either log.
C8_CanIffOutgoingLabel ==
    [][(pc = "ready" /\ op'.name = "can"
            /\ fsm.current_state \in DOMAIN fsm.states) =>
          /\ op'.exc = NoException
          /\ op'.ret \in {"True", "False"}
          /\ (op'.ret = "True") <=>
                 \E t \in Outgoing(fsm, fsm.current_state) : t[1] = op'.label
          /\ fsm'.current_state = fsm.current_state
          /\ fsm'.state_history = fsm.state_history
          /\ fsm'.transition_history = fsm.transition_history]_vars

\* C8 witness: can answered False in a state that has a transition, with
\* another label, after a step.
C8_Witness ==
    /\ op.name = "can" /\ op.ret = "False"
    /\ Len(fsm.transition_history) >= 1
    /\ Outgoing(fsm, fsm.current_state) # {}

\* C9: can_terminate() returns True exactly when the current state is in the
\* terminal set, and the call changes neither current nor either log.
C9_CanTerminateIffTerminal ==
    [][(pc = "ready" /\ op'.name = "can_terminate") =>
          /\ op'.exc = NoException
          /\ op'.ret \in {"True", "False"}
          /\ (op'.ret = "True") <=> (fsm.current_state \in fsm.terminal_states)
          /\ fsm'.current_state = fsm.current_state
          /\ fsm'.state_history = fsm.state_history
          /\ fsm'.transition_history = fsm.transition_history]_vars

\* C9 witness: can_terminate answered True after a step, in a machine whose
\* start state is not terminal.
C9_Witness ==
    /\ op.name = "can_terminate" /\ op.ret = "True"
    /\ Len(fsm.transition_history) >= 1
    /\ fsm.start_state \notin fsm.terminal_states

\* The state an accepts call begins at.
InitialState(call) ==
    IF call.from_start THEN fsm.start_state ELSE fsm.current_state

\* The length of the shortest prefix of the call's labels after which no
\* state is reachable (0 when every prefix leaves some state reachable).
DeadAt(call) ==
    LET dead == {n \in 1..Len(call.labels) :
                    Reachable(fsm, InitialState(call), call.labels, n) = {}}
    IN  IF dead = {} THEN 0 ELSE CHOOSE n \in dead : \A m \in dead : n <= m

C11_EmptyLabelsIffInitialTerminal ==
    (op.name = "accepts" /\ op.labels = <<>>) =>
        /\ op.exc = NoException
        /\ op.ret \in {"True", "False"}
        /\ (op.ret = "True") <=> (InitialState(op) \in fsm.terminal_states)
        /\ op.consumed = 0

\* C11 witness: after a step off a start state that is not terminal,
\* accepts of no labels from the current state answered True.
C11_Witness ==
    /\ op.name = "accepts" /\ op.labels = <<>> /\ ~op.from_start
    /\ op.ret = "True"
    /\ Len(fsm.transition_history) >= 1
    /\ fsm.start_state \notin fsm.terminal_states

\* C12: a table whose transitions all target keys is accepted by the
\* constructor also when the start state is no key; in that state can(label)
\* ends in an exception for every label, never in False, and leaves current
\* and both logs as they were.
C12_CanFailsOffTheTable ==
    [][/\ (pc = "new" /\ args.start_state \notin DOMAIN args.states
              /\ ~HasDanglingTarget(args.states)) =>
             /\ op'.name = "__init__" /\ op'.exc = NoException
             /\ pc' = "returned"
             /\ fsm'.current_state = args.start_state
       /\ (pc = "ready" /\ op'.name = "can"
              /\ fsm.current_state \notin DOMAIN fsm.states) =>
             /\ op'.exc # NoException
             /\ op'.ret \notin {"True", "False"}
             /\ fsm'.current_state = fsm.current_state
             /\ fsm'.state_history = fsm.state_history
             /\ fsm'.transition_history = fsm.transition_history]_vars

\* C12 witness: can raised in a machine whose table has keys with
\* transitions, none of them the start state.
C12_Witness ==
    /\ op.name = "can" /\ op.exc = TypeError
    /\ fsm.start_state \notin DOMAIN fsm.states
    /\ fsm.current_state = fsm.start_state
    /\ \E k \in DOMAIN fsm.states : \E t \in Range(fsm.states[k]) : t[1] = op.label

\* C13: when the start state is a key of the table, the current state is a
\* key in every state reached by step, can, can_terminate, accepts and
\* history calls, and no call ends in the failure of a lookup off the table.
C13_CurrentStaysOnTheTable ==
    (pc \in {"ready", "returned"} /\ fsm.start_state \in DOMAIN fsm.states) =>
        /\ fsm.current_state \in DOMAIN fsm.states
        /\ Range(fsm.state_history) \subseteq DOMAIN fsm.states
        /\ op.exc # TypeError

\* C13 witness: two steps were taken from a start state that is a key, and
\* the machine is now in another state.
C13_Witness ==
    /\ pc = "returned" /\ op.name = "step"
    /\ fsm.start_state \in DOMAIN fsm.states
    /\ Len(fsm.transition_history) = 2
    /\ fsm.current_state # fsm.start_state

\* C14: once the machine is constructed no call, returning or raising,
\* changes the table, the start state or the terminal set, and current and
\* the two logs change only in a step call that succeeds.
C14_OnlyStepMutates ==
    [][(pc # "new") =>
          /\ fsm'.states = fsm.states
          /\ fsm'.start_state = fsm.start_state
          /\ fsm'.terminal_states = fsm.terminal_states
          /\ args' = args
          /\ (\/ fsm'.current_state # fsm.current_state
              \/ fsm'.state_history # fsm.state_history
              \/ fsm'.transition_history # fsm.transition_history) =>
                 /\ op'.name = "step"
                 /\ op'.exc = NoException
                 /\ op'.ret = fsm'.current_state]_vars

\* C14 witness: history was called, after a step, on a machine whose logs
\* hold that step.
C14_Witness ==
    /\ op.name = "history"
    /\ Len(fsm.transition_history) >= 1
    /\ op.text = <<fsm.state_history, fsm.transition_history>>

\* C15: in every state reached from construction by whole calls, the visited
\* states are one more than the taken labels, the first visited state is the
\* start state, the last is the current state, and each taken label with the
\* visited state after it is a transition of the visited state before it;
\* right after construction current is the start state, the visited states
\* are [start] and no label is taken.
C15_LogsTraceAPath ==
    /\ (pc \in {"ready", "returned"}) =>
          /\ Len(fsm.state_history) = Len(fsm.transition_history) + 1
          /\ fsm.state_history[1] = fsm.start_state
          /\ fsm.state_history[Len(fsm.state_history)] = fsm.current_state
          /\ \A i \in 1..Len(fsm.transition_history) :
                <<fsm.transition_history[i], fsm.state_history[i + 1]>>
                    \in Outgoing(fsm, fsm.state_history[i])
    /\ (op.name = "__init__" /\ op.exc = NoException) =>
          /\ fsm.current_state = fsm.start_state
          /\ fsm.state_history = <<fsm.start_state>>
          /\ fsm.transition_history = <<>>

\* C15 witness: two steps are logged, the second one out of a state other
\* than the start state.
C15_Witness ==
    /\ pc = "ready"
    /\ Len(fsm.transition_history) = 2
    /\ fsm.state_history[2] # fsm.start_state
    /\ fsm.state_history[3] = fsm.current_state

\* C16: after any successful steps from construction the current state is in
\* the frontier accepts computes from the start state over the taken labels,
\* so whenever can_terminate() is True, accepts(taken labels,
\* from_start=True) is True.
C16_SteppingWithinAcceptance ==
    (pc \in {"ready", "returned"}) =>
        LET f == current_states_after(fsm, fsm.transition_history,
                                      {fsm.start_state})
        IN  /\ f.exc = NoException
            /\ fsm.current_state \in f.states
            /\ (can_terminate(fsm).ret = "True") =>
                   (accepts(fsm, fsm.transition_history, TRUE).ret = "True")

\* C16 witness: two steps ended in a terminal state while the frontier over
\* the taken labels holds a second state, which is not terminal.
C16_Witness ==
    /\ pc = "ready"
    /\ Len(fsm.transition_history) = 2
    /\ fsm.current_state \in fsm.terminal_states
    /\ \E s \in current_states_after(fsm, fsm.transition_history,
                                     {fsm.start_state}).states :
          s # fsm.current_state /\ s \notin fsm.terminal_states

\* No state of the table has two transitions with the same label.
Deterministic(self) ==
    \A k \in DOMAIN self.states :
        \A t, u \in Range(self.states[k]) : (t[1] = u[1]) => (t = u)

\* step called on the labels one by one, in order, stopping at the first
\* call that does not return a state: whether every call succeeded, and the
\* machine as the calls leave it.
RECURSIVE StepEach(_, _)
StepEach(self, labels) ==
    IF labels = <<>> THEN [ok |-> TRUE, self |-> self]
    ELSE LET r == step(self, Head(labels)) IN
         IF r.exc # NoException \/ r.ret = "None"
         THEN [ok |-> FALSE, self |-> r.self]
         ELSE StepEach(r.self, Tail(labels))

\* C17: for a table without two same-labelled transitions in any state, and
\* a current state that is a key, accepts(labels, from_start=False) is True
\* exactly when step succeeds on each label in turn and leaves the machine
\* where can_terminate() is True.
C17_AcceptsIsSteppingWhenDeterministic ==
    (op.name = "accepts" /\ ~op.from_start /\ Deterministic(fsm)
        /\ fsm.current_state \in DOMAIN fsm.states) =>
        LET r == StepEach(fsm, op.labels) IN
        /\ op.exc = NoException
        /\ (op.ret = "True") <=>
               (r.ok /\ can_terminate(r.self).ret = "True")

\* C17 witness: accepts answered True for two different labels in a
\* deterministic table, from a current state that has transitions for both
\* labels and is not the state the labels lead to.
C17_Witness ==
    /\ op.name = "accepts" /\ ~op.from_start /\ op.ret = "True"
    /\ Deterministic(fsm)
    /\ Len(op.labels) = 2 /\ op.labels[1] # op.labels[2]
    /\ Len(fsm.states[fsm.current_state]) = 2
    /\ StepEach(fsm, op.labels).self.current_state # fsm.current_state

\* C18: an accepts call that begins at a key of the table raises for no
\* label sequence: after every consumed label the frontier holds keys of the
\* table only (so it is no larger than the table), and the outcome is True
\* or False.
C18_AcceptsStaysOnTheTable ==
    (op.name = "accepts" /\ InitialState(op) \in DOMAIN fsm.states) =>
        /\ op.exc = NoException
        /\ op.ret \in {"True", "False"}
        /\ \A n \in 0..Len(op.labels) :
              LET f == current_states_after(fsm, SubSeq(op.labels, 1, n),
                                            {InitialState(op)})
              IN  /\ f.exc = NoException
                  /\ f.states \subseteq DOMAIN fsm.states
                  /\ Cardinality(f.states) <= Cardinality(DOMAIN fsm.states)

\* C18 witness: every label was consumed, the frontier grew to every key of
\* a table of two keys on the way, and the answer was False.
C18_Witness ==
    /\ op.name = "accepts" /\ op.ret = "False"
    /\ InitialState(op) \in DOMAIN fsm.states
    /\ Len(op.labels) = 2 /\ op.consumed = 2
    /\ Cardinality(DOMAIN fsm.states) = 2
    /\ current_states_after(fsm, SubSeq(op.labels, 1, 1),
                            {InitialState(op)}).states = DOMAIN fsm.states

\* The visited states do not end in the current state, or they are two more
\* than the taken labels.
Torn ==
    \/ fsm.state_history[Len(fsm.state_history)] # fsm.current_state
    \/ Len(fsm.state_history) = Len(fsm.transition_history) + 2

\* C19: step writes the visited states, then the taken labels, then current,
\* one write at a time, and a reading call may run between the writes.  A
\* state with the visited states not ending in current, or two longer than
\* the taken labels, exists only between those writes: after the first write
\* the visited states are two longer than the taken labels, after the second
\* they end in the target while current is still the state left; with no
\* step between its writes the reading calls find the logs whole.
C19_TornOnlyBetweenWritesOfStep ==
    (pc \in {"ready", "returned"}) =>
        /\ (stepping.pc \in {"idle", "append_state"}) =>
              /\ ~Torn
              /\ Len(fsm.state_history) = Len(fsm.transition_history) + 1
        /\ (stepping.pc = "append_label") =>
              /\ Len(fsm.state_history) = Len(fsm.transition_history) + 2
              /\ fsm.state_history[Len(fsm.state_history)]
                     = stepping.possible_transition[2]
              /\ fsm.state_history[Len(fsm.state_history) - 1]
                     = fsm.current_state
        /\ (stepping.pc = "set_current") =>
              /\ Len(fsm.state_history) = Len(fsm.transition_history) + 1
              /\ fsm.state_history[Len(fsm.state_history)]
                     = stepping.possible_transition[2]
              /\ fsm.transition_history[Len(fsm.transition_history)]
                     = stepping.possible_transition[1]
              /\ fsm.state_history[Len(fsm.state_history) - 1]
                     = fsm.current_state

\* C19 witness: history, called between the first and the second write of a
\* step, returned visited states two longer than the taken labels and not
\* ending in the current state.
C19_Witness ==
    /\ op.name = "history" /\ pc = "returned"
    /\ stepping.pc = "append_label"
    /\ Len(op.text[1]) = Len(op.text[2]) + 2
    /\ op.text[1][Len(op.text[1])] # fsm.current_state
    /\ op.text = <<fsm.state_history, fsm.transition_history>>

====
